---- MODULE Spec2Model ----
(***************************************************************************)
(* Model of the game analyzer of ChessMastery:                             *)
(*   StockfishApiEngine.analyzePosition     (retry / backoff controller)   *)
(*   StockfishApiEngine.analyzeCompleteGame (move loop, blunder check)     *)
(* Source: src/unnamed/part_000, lines 541-798.                            *)
(*                                                                         *)
(* Units.  The service reports "evaluation" in pawns as a float.  The      *)
(* model holds such floats as integers in THOUSANDTHS of a pawn, so that   *)
(* Math.round(evaluation * 100) and toFixed(2) are real roundings and the  *)
(* literal 1.0 of the blunder check is 1000.                               *)
(*                                                                         *)
(* A JavaScript null is Null (the empty tuple), a present value v is       *)
(* Some(v) (a one-element tuple).                                          *)
(***************************************************************************)
EXTENDS Integers, Sequences, FiniteSets, TLC

\* ------------------------------------------------------------------ bounds
\* Longest move list drawn as input.
MaxMoves == 3
\* The long games run up to this many moves past the ply cap.
CapOverrun == 2
\* In the long games at most this many plies have a failing evaluation.
MaxFailedPlies == 1

\* --------------------------------------------------------- program constants
maxRetries == 2
baseDelay == 600
RetryStep == 200
PlyCap == 30
\* score(mate_score=10000): 10000 centipawns, in thousandths of a pawn.
MateSentinel == 100000
\* "evalDrop > 1.0", in thousandths of a pawn.
DropThreshold == 1000
\* The delay between two moves' evaluations, in ms.
MoveSpacing == 500

\* ------------------------------------------------------------ value helpers
Null == <<>>
Some(v) == <<v>>

\* JavaScript ToNumber on a number-or-null: null is 0.
Num(x) == IF x = Null THEN 0 ELSE x[1]

\* JavaScript truthiness of a number-or-null: null and 0 are falsy.
Truthy(x) == x # Null /\ x[1] # 0

Abs(x) == IF x < 0 THEN -x ELSE x

Min(a, b) == IF a < b THEN a ELSE b

\* Math.round(evaluation * 100): thousandths of a pawn to centipawns,
\* halves rounded towards +infinity.
RoundCentipawns(x) == (Num(x) + 5) \div 10

\* Number.prototype.toFixed(2): two decimals, halves rounded away from zero.
ToFixed2(v) == IF v >= 0 THEN (v + 5) \div 10 ELSE -((-v + 5) \div 10)

\* ------------------------------------------------------ rules capability
\* Move tokens.  The first two are moves the board can accept; "Qh8" has
\* the shape of a move but is never accepted on a board reached from the
\* standard initial position (it is a move of a game that starts from
\* another position).
SanMoves == {"e4", "e5"}
Tokens == SanMoves \cup {"Qh8"}

\* chess.move(m) on the board reached by the moves in board: accepted when
\* m is a move and does not repeat the move just played (an abstraction of
\* position-dependent legality), otherwise it throws.
Legal(board, m) ==
    /\ m \in SanMoves
    /\ (board = <<>> \/ board[Len(board)] # m)

RECURSIVE AllLegal(_, _)
AllLegal(board, ms) ==
    IF ms = <<>> THEN TRUE
    ELSE Legal(board, Head(ms)) /\ AllLegal(Append(board, Head(ms)), Tail(ms))

\* A replay that skips a rejected candidate and goes on with the next one
\* ("continue" where the code has "break").
RECURSIVE ValidatedPrefixSkipping(_, _)
ValidatedPrefixSkipping(board, ms) ==
    IF ms = <<>> THEN <<>>
    ELSE IF Legal(board, Head(ms))
         THEN <<Head(ms)>> \o ValidatedPrefixSkipping(Append(board, Head(ms)), Tail(ms))
         ELSE ValidatedPrefixSkipping(board, Tail(ms))

\* A fallback that keeps every candidate without replaying it.
ValidatedPrefixUnchecked(board, ms) == ms

\* Lines 688-697: replay the candidates, keep those accepted, stop at the
\* first one rejected.
RECURSIVE ValidatedPrefix(_, _)
ValidatedPrefix(board, ms) ==
    IF ms = <<>> THEN <<>>
    ELSE IF Legal(board, Head(ms))
         THEN <<Head(ms)>> \o ValidatedPrefix(Append(board, Head(ms)), Tail(ms))
         ELSE <<>>

\* --------------------------------------------------------------- inputs
SeqsUpTo(S, n) == UNION {[1..k -> S] : k \in 0..n}

\* The PGN text, by what the two parsers make of it: structured says
\* whether chess.loadPgn accepts it, tokens is the move list it holds (the
\* game's history when it loads, the move-shaped candidates the fallback's
\* pattern finds when it does not).
\* A text with SetUp/FEN headers loads as well: chess.loadPgn starts from
\* the position of the FEN header and chess.history() is the game's moves
\* from that position (FromPosition: a first move only that position
\* allows, then moves the standard position allows too).
FromPosition ==
    {<<"Qh8">> \o s : s \in {t \in SeqsUpTo(SanMoves, MaxMoves - 1) : AllLegal(<<>>, t)}}

Inputs ==
    {[structured |-> TRUE, tokens |-> t] : t \in {s \in SeqsUpTo(SanMoves, MaxMoves) : AllLegal(<<>>, s)}}
    \cup {[structured |-> TRUE, tokens |-> t] : t \in FromPosition}
    \cup {[structured |-> FALSE, tokens |-> t] : t \in SeqsUpTo(Tokens, MaxMoves)}

\* The service names its best move in coordinate notation; SanOf is the
\* same move in the notation of the move list.
BestMoves == {"e7e5", "g8f6"}

SanOf(b) == IF b = "e7e5" THEN "e5" ELSE "Nf6"

\* Bodies the service can answer with success = true (StockfishApiAnalysis,
\* lines 543-549): a centipawn answer, a mate answer whose evaluation is
\* null, a mate answer that also carries an evaluation, and an answer with
\* neither.
EvalValues == {0, 1000, 2504}
MateValues == {3, -2}

Responses ==
    {[success |-> TRUE, evaluation |-> Some(e), mate |-> Null, bestmove |-> b] :
        e \in EvalValues, b \in BestMoves}
    \cup {[success |-> TRUE, evaluation |-> Null, mate |-> Some(m), bestmove |-> "g8f6"] :
        m \in MateValues}
    \cup {[success |-> TRUE, evaluation |-> Some(2504), mate |-> Some(3), bestmove |-> "e7e5"]}
    \cup {[success |-> TRUE, evaluation |-> Null, mate |-> Null, bestmove |-> "g8f6"]}

\* How one attempt (one fetch) can end.
\*   ok            response.ok and data.success
\*   http          !response.ok                       (line 585)
\*   unsuccessful  !data.success                      (line 597)
\*   transport     fetch rejects
\*   timeout       the 15 s timer aborts the fetch    (line 577)
\*   parse         response.json() rejects            (line 595)
FailureKinds == {"http", "unsuccessful", "transport", "timeout", "parse"}

\* The message of the error an attempt's failure raises.
ErrorMessage(kind) ==
    CASE kind = "http" -> "API request failed: 500"
      [] kind = "unsuccessful" -> "API returned unsuccessful response"
      [] kind = "transport" -> "fetch failed"
      [] kind = "timeout" -> "This operation was aborted"
      [] kind = "parse" -> "Unexpected token < in JSON"

\* Line 616: what analyzePosition throws when it gives up.
FailedMessage == "Failed to analyze position with Stockfish API"

\* error.message.includes('API request failed:')
IncludesRequestFailed(msg) == msg = "API request failed: 500"

\* error.message.includes('unsuccessful response')
IncludesUnsuccessful(msg) == msg = "API returned unsuccessful response"

\* ------------------------------------------------------------------ state
VARIABLES
    pgn,              \* the input text (see Inputs)
    pc,               \* where analyzeCompleteGame stands
    gameMoves,        \* the move list to analyse
    chess,            \* the board: the moves applied since the last reset
    i,                \* index of the analysis loop (0-based, as in the code)
    moveEvaluations,  \* the records of the report
    rawOutputLines,   \* the transcript lines
    hasBlunders,      \* flag of the blunder check
    outcome,          \* "none" while running, then "report" or "threw"
    frames,           \* analyzePosition: the recursion frames, outermost first
    apiPc,            \* analyzePosition: "idle", "fetch", "sleep", "rejected",
                      \*                  "returned" or "failed"
    apiResult,        \* analyzePosition: the value or the error it settled with
    requests,         \* fetches issued by the current logical call
    sleeps,           \* delays slept inside the current logical call, in order
    lastAttempt,      \* how the latest fetch ended ("ok" or a failure kind)
    recPly,           \* history: the ply (i + 1) each record was appended for
    evaluatedFens,    \* history: the positions handed to analyzePosition
    failedPlies,      \* history: the plies whose analyzePosition call threw
    sinceEval,        \* ms slept by the analyzer since the previous move's
                      \* evaluation ended (0 before the first one)
    \* -- the fallback extraction, character by character
    pgnText,          \* the raw text: its lines, each a sequence of characters
    srcMoves,         \* history: the move tokens the text was written from
    xpc,              \* "off", "lines", "match", "filter" or "done"
    lineIdx,          \* index of the line the first loop stands at
    moveLines,        \* the lines kept by the first loop
    movesText,        \* moveLines joined
    lastIndex,        \* where the pattern's next search starts
    extractedMoves,   \* the candidates
    \* -- RealStockfishEngine.analyzePosition, asked repeatedly
    root,             \* the position asked about (see Roots)
    rpc,              \* "off", "evaluate", "search", "move", "undo", "alt",
                      \* "altUndo", "tactic", "forkUndo", "finish" or "done"
    realChess,        \* the Chess instance: the position it stands at
    evaluation,       \* let evaluation of analyzePosition
    moveIdx,          \* the move the running loop stands at
    moveEvaluation,   \* const moveEvaluation of the loop body
    bestMove,         \* let bestMove (a move, or Null before the search)
    bestEvaluation,   \* let bestEvaluation (Null is -Infinity)
    searchResult,     \* what the search returned (Null while it runs)
    rnd,              \* the value the next Math.random() returns, in
                      \* thousandths
    analyses,         \* the analyses returned so far, in call order
    \* -- the clock of one attempt of analyzePosition
    phase,            \* "start" before the fetch is sent, "headers" while
                      \* the fetch is awaited, "body" while response.json()
                      \* is awaited
    attemptClock,     \* ms since the latest attempt sent its fetch
    timerArmed,       \* the latest attempt's abort timer is set and has
                      \* neither fired nor been cleared
    \* -- RealStockfishEngine.evaluatePawnStructure, one call
    pawnChess,        \* the position the call is given (its board)
    pawnFile,         \* the loop's file
    structure,        \* the local structure
    pawnPc,           \* "off", "loop", "done"
    \* -- analyze_game (the Python script), one game
    game,             \* the game read from the file and what the engine
                      \* thinks of its positions
    node,             \* the number of moves already analysed
    big_drops,        \* the list big_drops
    deltas,           \* the local delta of every iteration so far
    pyPc              \* "off", "loop", "done"

vars == <<pgn, pc, gameMoves, chess, i, moveEvaluations, rawOutputLines,
          hasBlunders, outcome, frames, apiPc, apiResult, requests, sleeps,
          lastAttempt, recPly, evaluatedFens, failedPlies, sinceEval,
          pgnText, srcMoves, xpc, lineIdx, moveLines, movesText, lastIndex,
          extractedMoves,
          root, rpc, realChess, evaluation, moveIdx, moveEvaluation, bestMove,
          bestEvaluation, searchResult, rnd, analyses,
          phase, attemptClock, timerArmed,
          pawnChess, pawnFile, structure, pawnPc,
          game, node, big_drops, deltas, pyPc>>

timerVars == <<phase, attemptClock, timerArmed>>

pawnVars == <<pawnChess, pawnFile, structure, pawnPc>>

pyVars == <<game, node, big_drops, deltas, pyPc>>

extractVars == <<pgnText, srcMoves, xpc, lineIdx, moveLines, movesText, lastIndex,
                 extractedMoves>>

realVars == <<root, rpc, realChess, evaluation, moveIdx, moveEvaluation,
              bestMove, bestEvaluation, searchResult, rnd, analyses>>

analyzerVars == <<pgn, pc, gameMoves, chess, i, moveEvaluations, rawOutputLines,
                  hasBlunders, outcome, recPly, evaluatedFens, failedPlies,
                  sinceEval>>

NoResult == [ok |-> FALSE, data |-> Null, message |-> ""]

Line(kind, moveNum, move, evalStr) ==
    [kind |-> kind, moveNum |-> moveNum, move |-> move, evalStr |-> evalStr]

GameLine == Line("game", 0, "", Null)
BlankLine == Line("blank", 0, "", Null)
DropsText == "Major evaluation drops detected."
NoDropsText == "No major evaluation drops detected."
VerdictLine(text) == Line("verdict", 0, text, Null)

\* Lines 621-623 and the state before the first statement of the try block.
InitRun ==
    /\ pc = "start"
    /\ gameMoves = <<>>
    /\ chess = <<>>
    /\ i = 0
    /\ moveEvaluations = <<>>
    /\ rawOutputLines = <<>>
    /\ hasBlunders = FALSE
    /\ outcome = "none"
    /\ frames = <<>>
    /\ apiPc = "idle"
    /\ apiResult = NoResult
    /\ requests = 0
    /\ sleeps = <<>>
    /\ lastAttempt = "none"
    /\ recPly = <<>>
    /\ evaluatedFens = <<>>
    /\ failedPlies = {}
    /\ sinceEval = 0

\* The extraction taken character by character is not running.
ExtractOff ==
    /\ pgnText = <<>>
    /\ srcMoves = <<>>
    /\ xpc = "off"
    /\ lineIdx = 1
    /\ moveLines = <<>>
    /\ movesText = <<>>
    /\ lastIndex = 1
    /\ extractedMoves = <<>>

\* No RealStockfishEngine call is running.
RealOff ==
    /\ root = Null
    /\ rpc = "off"
    /\ realChess = Null
    /\ evaluation = 0
    /\ moveIdx = 1
    /\ moveEvaluation = 0
    /\ bestMove = Null
    /\ bestEvaluation = Null
    /\ searchResult = Null
    /\ rnd = 0
    /\ analyses = <<>>

\* No attempt has sent its fetch.
TimerOff ==
    /\ phase = "start"
    /\ attemptClock = 0
    /\ timerArmed = FALSE

\* No evaluatePawnStructure call is under way.
PawnOff ==
    /\ pawnChess = [board |-> <<>>]
    /\ pawnFile = 0
    /\ structure = 0
    /\ pawnPc = "off"

\* The script is not running.
PyOff ==
    /\ game = [scores |-> <<>>, playedBest |-> <<>>]
    /\ node = 0
    /\ big_drops = <<>>
    /\ deltas = <<>>
    /\ pyPc = "off"

\* No StockfishApiEngine run is under way.
AnalyzerOff ==
    /\ pgn = [structured |-> TRUE, tokens |-> <<>>]
    /\ pc = "off"
    /\ gameMoves = <<>>
    /\ chess = <<>>
    /\ i = 0
    /\ moveEvaluations = <<>>
    /\ rawOutputLines = <<>>
    /\ hasBlunders = FALSE
    /\ outcome = "none"
    /\ frames = <<>>
    /\ apiPc = "idle"
    /\ apiResult = NoResult
    /\ requests = 0
    /\ sleeps = <<>>
    /\ lastAttempt = "none"
    /\ recPly = <<>>
    /\ evaluatedFens = <<>>
    /\ failedPlies = {}
    /\ sinceEval = 0

Init ==
    /\ pgn \in Inputs
    /\ InitRun
    /\ ExtractOff
    /\ RealOff
    /\ TimerOff
    /\ PawnOff
    /\ PyOff

\* ------------------------------------------------------------ analyzePosition
\* A retry delay that forgets the per-retry increment.
DelayFlat(retryCount) == baseDelay

\* Lines 587, 599, 610: const delay = baseDelay + (retryCount * 200).
Delay(retryCount) == baseDelay + (retryCount * RetryStep)

\* The recursive call awaited inside the try block ("return await"): the
\* caller's catch block then handles the callee's rejection.
CatchSeesInnerRejectionAwaited == TRUE

\* Lines 590, 602, 613: the recursive call is returned, not awaited, so its
\* rejection settles the caller's promise without entering the caller's
\* catch block.
CatchSeesInnerRejection == FALSE

\* A catch block that also gives up at once on an unparsable body.
CatchRetriesExceptParse(retryCount, msg) ==
    /\ retryCount < maxRetries
    /\ ~IncludesRequestFailed(msg)
    /\ ~IncludesUnsuccessful(msg)
    /\ msg # "Unexpected token < in JSON"

\* Line 609: the condition under which the catch block retries.
CatchRetries(retryCount, msg) ==
    /\ retryCount < maxRetries
    /\ ~IncludesRequestFailed(msg)
    /\ ~IncludesUnsuccessful(msg)

Top == frames[Len(frames)]

SetTopBlock(b) == [frames EXCEPT ![Len(frames)].block = b]

\* Lines 574-617 up to the first suspension after the fetch: one attempt.
\* It returns the body, starts the sleep that precedes a retry, or throws.
ApiFetch(kind, data) ==
    /\ pc = "eval"
    /\ apiPc = "fetch"
    /\ requests' = requests + 1
    /\ lastAttempt' = kind
    /\ IF kind = "ok"
       THEN \* line 607: every frame returned its callee's promise
            /\ apiPc' = "returned"
            /\ apiResult' = [ok |-> TRUE, data |-> Some(data), message |-> ""]
            /\ frames' = <<>>
            /\ sleeps' = sleeps
       ELSE IF kind \in {"http", "unsuccessful"} /\ Top.retryCount < maxRetries
       THEN \* lines 586-590, 598-602: retry from inside the try block
            /\ apiPc' = "sleep"
            /\ sleeps' = Append(sleeps, Delay(Top.retryCount))
            /\ UNCHANGED <<frames, apiResult>>
       ELSE IF CatchRetries(Top.retryCount, ErrorMessage(kind))
       THEN \* lines 609-613: retry from inside the catch block
            /\ apiPc' = "sleep"
            /\ sleeps' = Append(sleeps, Delay(Top.retryCount))
            /\ frames' = SetTopBlock("catch")
            /\ UNCHANGED apiResult
       ELSE \* lines 592, 604 thrown into the catch block, then lines 615-616
            /\ apiPc' = "rejected"
            /\ apiResult' = [ok |-> FALSE, data |-> Null, message |-> FailedMessage]
            /\ frames' = SetTopBlock("catch")
            /\ sleeps' = sleeps
    /\ UNCHANGED analyzerVars
    /\ UNCHANGED <<extractVars, realVars, pawnVars, pyVars>>

\* The sleep ends and the frame calls analyzePosition(fen, retryCount + 1).
ApiSleepDone ==
    /\ pc = "eval"
    /\ apiPc = "sleep"
    /\ frames' = Append(frames, [retryCount |-> Top.retryCount + 1, block |-> "try"])
    /\ apiPc' = "fetch"
    /\ UNCHANGED <<apiResult, requests, sleeps, lastAttempt>>
    /\ UNCHANGED analyzerVars
    /\ UNCHANGED <<extractVars, realVars, timerVars, pawnVars, pyVars>>

\* The innermost frame has thrown: its promise rejects.  The outermost
\* frame's rejection is the call's; any other reaches the frame that called
\* it, which made the call from its try block or from its catch block.
ApiUnwind ==
    /\ pc = "eval"
    /\ apiPc = "rejected"
    /\ LET rest == SubSeq(frames, 1, Len(frames) - 1)
           caller == rest[Len(rest)]
       IN IF rest = <<>>
          THEN /\ frames' = <<>>
               /\ apiPc' = "failed"
               /\ sleeps' = sleeps
          ELSE IF CatchSeesInnerRejection /\ caller.block = "try"
                  /\ CatchRetries(caller.retryCount, apiResult.message)
          THEN /\ frames' = [rest EXCEPT ![Len(rest)].block = "catch"]
               /\ apiPc' = "sleep"
               /\ sleeps' = Append(sleeps, Delay(caller.retryCount))
          ELSE /\ frames' = [rest EXCEPT ![Len(rest)].block = "catch"]
               /\ apiPc' = "rejected"
               /\ sleeps' = sleeps
    /\ UNCHANGED <<apiResult, requests, lastAttempt>>
    /\ UNCHANGED analyzerVars
    /\ UNCHANGED <<extractVars, realVars, timerVars, pawnVars, pyVars>>

apiVars == <<frames, apiPc, apiResult, requests, sleeps, lastAttempt>>

\* -------------------------------------------------------- analyzeCompleteGame
\* Lines 632-715: the move list (structured parse, or the fallback's
\* validated prefix), the board reset, and the transcript's first line.
ParsePgn ==
    /\ pc = "start"
    /\ gameMoves' = IF pgn.structured
                    THEN pgn.tokens
                    ELSE ValidatedPrefix(<<>>, pgn.tokens)
    /\ chess' = <<>>
    /\ rawOutputLines' = Append(rawOutputLines, GameLine)
    /\ pc' = "loop"
    /\ UNCHANGED <<pgn, i, moveEvaluations, hasBlunders, outcome, recPly,
                   evaluatedFens, failedPlies, sinceEval>>
    /\ UNCHANGED apiVars
    /\ UNCHANGED <<extractVars, realVars, timerVars, pawnVars, pyVars>>

\* An analysis loop without the limit.
maxMovesUncapped == Len(gameMoves)

\* Line 715.
maxMoves == Min(Len(gameMoves), PlyCap)

\* A spacing that is skipped for the second move as well.
SpacingFromThirdMove(index) == IF index > 1 THEN MoveSpacing ELSE 0

\* Lines 732-734: the delay slept before the call for the move of this index.
Spacing(index) == IF index > 0 THEN MoveSpacing ELSE 0

\* Lines 718-736: apply move i and call analyzePosition on the position
\* reached.  A move the board rejects throws out of the loop to line 791.
MakeMove ==
    /\ pc = "loop"
    /\ i < maxMoves
    /\ LET move == gameMoves[i + 1]
       IN IF Legal(chess, move)
          THEN /\ chess' = Append(chess, move)
               /\ evaluatedFens' = Append(evaluatedFens, chess')
               /\ frames' = <<[retryCount |-> 0, block |-> "try"]>>
               /\ apiPc' = "fetch"
               /\ pc' = "eval"
               /\ outcome' = outcome
               /\ sinceEval' = sinceEval + Spacing(i)
          ELSE /\ pc' = "done"
               /\ outcome' = "threw"
               /\ UNCHANGED <<chess, evaluatedFens, frames, apiPc, sinceEval>>
    /\ UNCHANGED <<pgn, gameMoves, i, moveEvaluations, rawOutputLines,
                   hasBlunders, recPly, failedPlies>>
    /\ UNCHANGED <<apiResult, requests, sleeps, lastAttempt>>
    /\ UNCHANGED <<extractVars, realVars, timerVars, pawnVars, pyVars>>

\* A record whose move number lacks the "+ 1".
MoveRecordZeroBased(move, analysis) ==
    [moveNumber |-> i \div 2,
     move |-> <<move, "|">>,
     evaluation |-> RoundCentipawns(analysis.evaluation),
     evaluationFloat |-> analysis.evaluation,
     mate |-> IF Truthy(analysis.mate) THEN analysis.mate ELSE Null,
     bestMove |-> analysis.bestmove]

\* A record that stores the suggested move in place of the played one.
MoveRecordSuggested(move, analysis) ==
    [moveNumber |-> (i \div 2) + 1,
     move |-> <<SanOf(analysis.bestmove), "|">>,
     evaluation |-> RoundCentipawns(analysis.evaluation),
     evaluationFloat |-> analysis.evaluation,
     mate |-> IF Truthy(analysis.mate) THEN analysis.mate ELSE Null,
     bestMove |-> analysis.bestmove]

\* Lines 742-749: the record pushed for move i.
MoveRecord(move, analysis) ==
    [moveNumber |-> (i \div 2) + 1,
     move |-> <<move, "|">>,
     evaluation |-> RoundCentipawns(analysis.evaluation),
     evaluationFloat |-> analysis.evaluation,
     mate |-> IF Truthy(analysis.mate) THEN analysis.mate ELSE Null,
     bestMove |-> analysis.bestmove]

\* Lines 753-755: the evaluation as the transcript prints it.
EvalStr(analysis) ==
    IF Truthy(analysis.mate)
    THEN <<"#", analysis.mate[1]>>
    ELSE <<"", ToFixed2(analysis.evaluation[1])>>

\* Line 755: toFixed is called on evaluationFloat, which throws a TypeError
\* when it is null.
EvalStrThrows(analysis) == ~Truthy(analysis.mate) /\ analysis.evaluation = Null

\* A loop without the per-move catch: the error reaches line 791.
MoveErrorPcRethrown == "done"

\* Lines 759-762: the catch block of one move logs and lets the loop go on.
MoveErrorPc == "loop"

\* Lines 736-763: the call has settled; push the record and the transcript
\* line, or catch the error, then go on to the next index.
RecordMove ==
    /\ pc = "eval"
    /\ apiPc \in {"returned", "failed"}
    /\ LET move == gameMoves[i + 1]
           analysis == apiResult.data[1]
           pushed == apiResult.ok /\ analysis.success
           threw == ~apiResult.ok \/ (pushed /\ EvalStrThrows(analysis))
           next == IF threw THEN MoveErrorPc ELSE "loop"
       IN /\ moveEvaluations' = IF pushed
                                THEN Append(moveEvaluations, MoveRecord(move, analysis))
                                ELSE moveEvaluations
          /\ recPly' = IF pushed THEN Append(recPly, i + 1) ELSE recPly
          /\ rawOutputLines' = IF pushed /\ ~threw
                               THEN Append(rawOutputLines,
                                           Line("move", i + 1, <<move, "|">>, EvalStr(analysis)))
                               ELSE rawOutputLines
          /\ failedPlies' = IF apiResult.ok THEN failedPlies ELSE failedPlies \cup {i + 1}
          /\ pc' = next
          /\ outcome' = IF next = "loop" THEN outcome ELSE "threw"
    /\ i' = i + 1
    /\ sinceEval' = 0
    /\ apiPc' = "idle"
    /\ apiResult' = NoResult
    /\ requests' = 0
    /\ sleeps' = <<>>
    /\ lastAttempt' = "none"
    /\ UNCHANGED <<pgn, gameMoves, chess, hasBlunders, evaluatedFens, frames>>
    /\ UNCHANGED <<extractVars, realVars, timerVars, pawnVars, pyVars>>

\* Line 772: the two values compared for records k - 1 and k.
DeltaOperand(rec) == Num(rec.evaluationFloat)

EvalDrop(evals, k) == Abs(DeltaOperand(evals[k]) - DeltaOperand(evals[k - 1]))

\* Line 773.
IsDrop(evals, k) == EvalDrop(evals, k) > DropThreshold

\* Lines 766-778: scan the consecutive pairs, stop at the first drop.
RECURSIVE ScanDrops(_, _)
ScanDrops(evals, k) ==
    IF ~(k <= Len(evals)) THEN FALSE
    ELSE IF IsDrop(evals, k) THEN TRUE
    ELSE ScanDrops(evals, k + 1)

\* Line 781.
Verdict(flag) == IF flag THEN DropsText ELSE NoDropsText

\* Lines 765-789: the blunder check, the last two transcript lines and
\* the return of the report.
Summarize ==
    /\ pc = "loop"
    /\ ~(i < maxMoves)
    /\ hasBlunders' = ScanDrops(moveEvaluations, 2)
    /\ rawOutputLines' = rawOutputLines \o <<BlankLine, VerdictLine(Verdict(hasBlunders'))>>
    /\ outcome' = "report"
    /\ pc' = "done"
    /\ UNCHANGED <<pgn, gameMoves, chess, i, moveEvaluations, recPly,
                   evaluatedFens, failedPlies, sinceEval>>
    /\ UNCHANGED apiVars
    /\ UNCHANGED <<extractVars, realVars, timerVars, pawnVars, pyVars>>

\* Line 788.
totalMoves == Len(gameMoves)

Next ==
    \/ ParsePgn
    \/ MakeMove
    \/ \E data \in Responses : ApiFetch("ok", data) /\ UNCHANGED timerVars
    \/ \E kind \in FailureKinds : ApiFetch(kind, Null) /\ UNCHANGED timerVars
    \/ ApiSleepDone
    \/ ApiUnwind
    \/ RecordMove
    \/ Summarize

Spec == Init /\ [][Next]_vars

\* ------------------------------------------------- games around the ply cap
\* A game of n moves the board accepts, loaded by the structured parser.
LongGame(n) == [k \in 1..n |-> IF k % 2 = 1 THEN "e4" ELSE "e5"]

LongInputs ==
    {[structured |-> TRUE, tokens |-> LongGame(n)] :
        n \in (PlyCap - 1)..(PlyCap + CapOverrun)}

\* The one body the service answers with in the long games.
CapResponse ==
    [success |-> TRUE, evaluation |-> Some(1000), mate |-> Null, bestmove |-> "e7e5"]

InitCap ==
    /\ pgn \in LongInputs
    /\ InitRun
    /\ ExtractOff
    /\ RealOff
    /\ TimerOff
    /\ PawnOff
    /\ PyOff

\* The same operations; the service answers with CapResponse or with an
\* HTTP error, and no more than MaxFailedPlies calls fail altogether.
NextCap ==
    \/ ParsePgn
    \/ MakeMove
    \/ ApiFetch("ok", CapResponse) /\ UNCHANGED timerVars
    \/ (Cardinality(failedPlies) < MaxFailedPlies /\ ApiFetch("http", Null)
        /\ UNCHANGED timerVars)
    \/ ApiSleepDone
    \/ ApiUnwind
    \/ RecordMove
    \/ Summarize

SpecCap == InitCap /\ [][NextCap]_vars

\* ============================================= one attempt, with its clock
\* Lines 575-595 taken await by await: the fetch is sent with an abort
\* timer (577-581), the timer is cleared when the fetch resolves (583), the
\* body is read afterwards (595).  Time is in ms.

\* The longest an attempt is followed.
MaxAttemptTime == 25000

\* setTimeout(() => controller.abort(), 15000)
AbortAfter == 15000

\* Time passes in steps of this size.
ClockStep == 5000

\* A timer that never comes due.
TimerDueNever(clock) == FALSE

\* Line 577: the timer is due.
TimerDue(clock) == clock >= AbortAfter

\* A game of one move.
OneMoveInput == [structured |-> TRUE, tokens |-> <<"e4">>]

InitTimed ==
    /\ pgn = OneMoveInput
    /\ InitRun
    /\ ExtractOff
    /\ RealOff
    /\ TimerOff
    /\ PawnOff
    /\ PyOff

\* Lines 575-581: the controller and its timer are created, the fetch is
\* sent.
AttemptStart ==
    /\ pc = "eval"
    /\ apiPc = "fetch"
    /\ phase = "start"
    /\ phase' = "headers"
    /\ attemptClock' = 0
    /\ timerArmed' = TRUE
    /\ UNCHANGED <<analyzerVars, apiVars, extractVars, realVars, pawnVars, pyVars>>

\* Time passes while the fetch or the body is awaited.  A timer that is
\* due fires before more time passes.
ClockTick ==
    /\ pc = "eval"
    /\ apiPc = "fetch"
    /\ phase \in {"headers", "body"}
    /\ ~(timerArmed /\ TimerDue(attemptClock))
    /\ attemptClock + ClockStep <= MaxAttemptTime
    /\ attemptClock' = attemptClock + ClockStep
    /\ UNCHANGED <<phase, timerArmed>>
    /\ UNCHANGED <<analyzerVars, apiVars, extractVars, realVars, pawnVars, pyVars>>

\* Line 577: the timer fires while the fetch is awaited; the fetch is
\* aborted and rejects.
TimerFires ==
    /\ phase = "headers"
    /\ timerArmed
    /\ TimerDue(attemptClock)
    /\ ApiFetch("timeout", Null)
    /\ phase' = "start"
    /\ timerArmed' = FALSE
    /\ UNCHANGED attemptClock

\* The fetch rejects by itself; line 583 is not reached, the timer stays
\* set and will fire on a request that is over.
TransportFails ==
    /\ phase = "headers"
    /\ ~(timerArmed /\ TimerDue(attemptClock))
    /\ ApiFetch("transport", Null)
    /\ phase' = "start"
    /\ UNCHANGED <<attemptClock, timerArmed>>

\* Lines 579-593: the fetch resolves, the timer is cleared; with a status
\* that is not ok the attempt is over, otherwise the body is awaited.
HeadersArrive(ok) ==
    /\ phase = "headers"
    /\ ~(timerArmed /\ TimerDue(attemptClock))
    /\ timerArmed' = FALSE
    /\ UNCHANGED attemptClock
    /\ IF ok
       THEN /\ pc = "eval"
            /\ apiPc = "fetch"
            /\ phase' = "body"
            /\ UNCHANGED <<analyzerVars, apiVars, extractVars, realVars, pawnVars, pyVars>>
       ELSE /\ ApiFetch("http", Null)
            /\ phase' = "start"

\* Lines 595-607: response.json() settles.
BodyArrives(kind, data) ==
    /\ phase = "body"
    /\ ApiFetch(kind, data)
    /\ phase' = "start"
    /\ UNCHANGED <<attemptClock, timerArmed>>

NextTimed ==
    \/ ParsePgn
    \/ MakeMove
    \/ AttemptStart
    \/ ClockTick
    \/ TimerFires
    \/ TransportFails
    \/ \E ok \in BOOLEAN : HeadersArrive(ok)
    \/ BodyArrives("ok", CapResponse)
    \/ \E kind \in {"unsuccessful", "parse"} : BodyArrives(kind, Null)
    \/ ApiSleepDone
    \/ ApiUnwind
    \/ RecordMove
    \/ Summarize

SpecTimed == InitTimed /\ [][NextTimed]_vars

\* ================================================= the fallback extraction
\* Lines 643-685 taken character by character.  A string is the sequence of
\* its characters; pgn.split('\n') is the sequence of the text's lines.

\* Longest move list the texts are written from.
MaxTextMoves == 3

Digits == {"0", "1", "2", "3", "4", "5", "6", "7", "8", "9"}
LowerCase == {"a", "b", "c", "d", "e", "f", "g", "h", "i", "j", "k", "l", "m",
              "n", "o", "p", "q", "r", "s", "t", "u", "v", "w", "x", "y", "z"}
UpperCase == {"A", "B", "C", "D", "E", "F", "G", "H", "I", "J", "K", "L", "M",
              "N", "O", "P", "Q", "R", "S", "T", "U", "V", "W", "X", "Y", "Z"}
\* \w
WordChars == Digits \cup LowerCase \cup UpperCase \cup {"_"}
\* \s, as far as the texts have it
Whitespace == {" "}

\* The character at position p, "" outside the string.
At(t, p) == IF p >= 1 /\ p <= Len(t) THEN t[p] ELSE ""

\* \b in front of position p.
Boundary(t, p) == (At(t, p - 1) \in WordChars) # (At(t, p) \in WordChars)

RECURSIVE TrimStart(_)
TrimStart(t) ==
    IF t # <<>> /\ Head(t) \in Whitespace THEN TrimStart(Tail(t)) ELSE t

RECURSIVE TrimEnd(_)
TrimEnd(t) ==
    IF t # <<>> /\ t[Len(t)] \in Whitespace
    THEN TrimEnd(SubSeq(t, 1, Len(t) - 1))
    ELSE t

\* String.prototype.trim
Trim(t) == TrimEnd(TrimStart(t))

\* t.endsWith(u)
EndsWith(t, u) == Len(u) <= Len(t) /\ SubSeq(t, Len(t) - Len(u) + 1, Len(t)) = u

\* t.includes(u)
Includes(t, u) == \E p \in 1..(Len(t) - Len(u) + 1) : SubSeq(t, p, p + Len(u) - 1) = u

\* t.lastIndexOf(c) for a character c, 1-based; 0 when c does not occur.
LastIndexOf(t, c) ==
    IF \E p \in 1..Len(t) : t[p] = c
    THEN CHOOSE p \in 1..Len(t) : t[p] = c /\ \A q \in (p + 1)..Len(t) : t[q] # c
    ELSE 0

RECURSIVE Join(_, _)
\* Array.prototype.join
Join(ss, sep) ==
    IF ss = <<>> THEN <<>>
    ELSE IF Len(ss) = 1 THEN ss[1]
    ELSE ss[1] \o sep \o Join(Tail(ss), sep)

\* The alternatives of (1-0|0-1|1\/2-1\/2|\*).
ResultTokens ==
    {<<"1", "-", "0">>, <<"0", "-", "1">>,
     <<"1", "/", "2", "-", "1", "/", "2">>, <<"*">>}

\* Lines 655 and 663: t.replace(/\s+(1-0|0-1|1\/2-1\/2|\*)$/, '').  The
\* leftmost match starts at the first blank of the run in front of the token.
StripResult(t) ==
    IF \E r \in ResultTokens : EndsWith(t, r) /\ At(t, Len(t) - Len(r)) \in Whitespace
    THEN LET r == CHOOSE r \in ResultTokens : EndsWith(t, r)
         IN TrimEnd(SubSeq(t, 1, Len(t) - Len(r)))
    ELSE t

\* Lines 646-667: what one line of the text adds to moveLines, <<>> when it
\* adds nothing.
CleanLine(line) ==
    LET trimmedLine == Trim(line) IN
    IF At(trimmedLine, 1) = "["
    THEN LET closingBracket == LastIndexOf(trimmedLine, "]") IN
         IF closingBracket # 0 /\ closingBracket < Len(trimmedLine)
         THEN StripResult(Trim(SubSeq(trimmedLine, closingBracket + 1, Len(trimmedLine))))
         ELSE <<>>
    ELSE StripResult(trimmedLine)

\* The pattern of line 674.  An alternative is a sequence of items; an item
\* is a sequence of character classes to be matched one after the other,
\* and is optional or not.
Item(classes, optional) == [classes |-> classes, optional |-> optional]

PieceLetters == {"N", "B", "R", "Q", "K"}
FileLetters == {"a", "b", "c", "d", "e", "f", "g", "h"}
RankDigits == {"1", "2", "3", "4", "5", "6", "7", "8"}

\* [NBRQK]?[a-h]?[1-8]?x?[a-h][1-8](?:=[NBRQK])?[+#]?
PieceMoveAlt ==
    <<Item(<<PieceLetters>>, TRUE), Item(<<FileLetters>>, TRUE),
      Item(<<RankDigits>>, TRUE), Item(<<{"x"}>>, TRUE),
      Item(<<FileLetters>>, FALSE), Item(<<RankDigits>>, FALSE),
      Item(<<{"="}, PieceLetters>>, TRUE), Item(<<{"+", "#"}>>, TRUE)>>

\* O-O(?:-O)?
CastleAlt ==
    <<Item(<<{"O"}, {"-"}, {"O"}>>, FALSE), Item(<<{"-"}, {"O"}>>, TRUE)>>

\* [a-h][1-8](?:=[NBRQK])?[+#]?
PawnMoveAlt ==
    <<Item(<<FileLetters>>, FALSE), Item(<<RankDigits>>, FALSE),
      Item(<<{"="}, PieceLetters>>, TRUE), Item(<<{"+", "#"}>>, TRUE)>>

movePattern == <<PieceMoveAlt, CastleAlt, PawnMoveAlt>>

\* The position after the classes matched at p, 0 when they do not match.
Consume(t, p, classes) ==
    IF \A k \in 1..Len(classes) : At(t, p + k - 1) \in classes[k]
    THEN p + Len(classes)
    ELSE 0

\* The items from the k-th on matched at p and followed by the closing \b:
\* the position after the match the backtracking finds first (an optional
\* item is tried taken, then left out), 0 when there is none.
RECURSIVE MatchItems(_, _, _, _)
MatchItems(t, p, items, k) ==
    IF k > Len(items) THEN (IF Boundary(t, p) THEN p ELSE 0)
    ELSE LET q == Consume(t, p, items[k].classes)
             taken == IF q = 0 THEN 0 ELSE MatchItems(t, q, items, k + 1)
         IN IF taken # 0 THEN taken
            ELSE IF items[k].optional THEN MatchItems(t, p, items, k + 1)
            ELSE 0

\* The alternatives from the a-th on, in order.
RECURSIVE MatchAlts(_, _, _)
MatchAlts(t, p, a) ==
    IF a > Len(movePattern) THEN 0
    ELSE LET e == MatchItems(t, p, movePattern[a], 1)
         IN IF e # 0 THEN e ELSE MatchAlts(t, p, a + 1)

\* The whole pattern at p: the opening \b, then the alternatives.
MatchAt(t, p) == IF Boundary(t, p) THEN MatchAlts(t, p, 1) ELSE 0

\* One step of the global match (line 675): the leftmost match that starts
\* at from or later, Null when there is none.
RECURSIVE NextMatch(_, _)
NextMatch(t, from) ==
    IF from > Len(t) THEN Null
    ELSE LET e == MatchAt(t, from)
         IN IF e # 0 THEN Some([start |-> from, end |-> e])
            ELSE NextMatch(t, from + 1)

\* move.match(/^\d+\.?$/)
IsMoveNumber(m) ==
    LET body == IF m # <<>> /\ m[Len(m)] = "." THEN SubSeq(m, 1, Len(m) - 1) ELSE m
    IN body # <<>> /\ \A k \in 1..Len(body) : body[k] \in Digits

\* Lines 679-685: the predicate of the filter.
KeepCandidate(m) ==
    /\ ~IsMoveNumber(m)
    /\ ~Includes(m, <<"1", "-", "0">>)
    /\ ~Includes(m, <<"0", "-", "1">>)
    /\ ~Includes(m, <<"1", "/", "2", "-", "1", "/", "2">>)
    /\ ~Includes(m, <<"*">>)

\* ---- the texts
\* Move tokens the texts are written from: a pawn move, a piece move, a
\* castling, a capture that mates, a promotion that checks.
TextMoves ==
    {<<"e", "4">>, <<"N", "f", "3">>, <<"O", "-", "O">>,
     <<"Q", "x", "f", "7", "#">>}

\* Header blocks: none; one line whose value has the shape of a move; two
\* lines, one with a result in its value.
EventLine == <<"[", "E", "v", "e", "n", "t", " ", "\"", "e", "4", "\"", "]">>
SiteLine == <<"[", "S", "i", "t", "e", " ", "\"", "N", "f", "3", "\"", "]">>
ResultLine == <<"[", "R", "e", "s", "u", "l", "t", " ", "\"", "1", "-", "0", "\"", "]">>
HeaderBlocks == {<<>>, <<EventLine>>, <<SiteLine, ResultLine>>}

\* "1." or "1. " in front of White's move.
NumberStyles == {"spaced", "tight"}
\* All moves on one line; one line for every move pair; everything on the
\* line of the last header.
Layouts == {"one", "pairs", "header"}

DigitOf(n) == CASE n = 1 -> "1" [] n = 2 -> "2" [] n = 3 -> "3" [] n = 4 -> "4"
                [] n = 5 -> "5" [] n = 6 -> "6" [] n = 7 -> "7" [] n = 8 -> "8"
                [] n = 9 -> "9"

\* The n-th move pair: number, White's move and, when played, Black's.
MovePair(ms, n, style) ==
    <<DigitOf(n), ".">> \o (IF style = "spaced" THEN <<" ">> ELSE <<>>)
    \o ms[2 * n - 1]
    \o (IF 2 * n <= Len(ms) THEN <<" ">> \o ms[2 * n] ELSE <<>>)

MovePairs(ms, style) == [n \in 1..((Len(ms) + 1) \div 2) |-> MovePair(ms, n, style)]

\* The lines of a text: the headers, the numbered moves, the result token
\* last.
TextLines(headers, ms, style, layout, result) ==
    LET pairs == MovePairs(ms, style)
        body == IF layout = "pairs"
                THEN (IF pairs = <<>> THEN <<result>>
                      ELSE [n \in 1..Len(pairs) |->
                              IF n = Len(pairs) THEN pairs[n] \o <<" ">> \o result
                              ELSE pairs[n]])
                ELSE <<Join(pairs \o <<result>>, <<" ">>)>>
    IN IF layout = "header" /\ headers # <<>>
       THEN SubSeq(headers, 1, Len(headers) - 1)
            \o <<headers[Len(headers)] \o <<" ">> \o body[1]>>
       ELSE headers \o body

Texts ==
    {[lines |-> TextLines(h, ms, st, la, r), moves |-> ms] :
        h \in HeaderBlocks, ms \in SeqsUpTo(TextMoves, MaxTextMoves),
        st \in NumberStyles, la \in Layouts, r \in ResultTokens}

\* ---- the steps
InitExtract ==
    /\ \E tx \in Texts : pgnText = tx.lines /\ srcMoves = tx.moves
    /\ xpc = "lines"
    /\ lineIdx = 1
    /\ moveLines = <<>>
    /\ movesText = <<>>
    /\ lastIndex = 1
    /\ extractedMoves = <<>>
    /\ AnalyzerOff
    /\ RealOff
    /\ TimerOff
    /\ PawnOff
    /\ PyOff

\* Lines 645-668: one pass of the first loop.
ExtractLine ==
    /\ xpc = "lines"
    /\ lineIdx <= Len(pgnText)
    /\ LET cleaned == CleanLine(pgnText[lineIdx])
       IN moveLines' = IF cleaned # <<>> THEN Append(moveLines, cleaned) ELSE moveLines
    /\ lineIdx' = lineIdx + 1
    /\ UNCHANGED <<pgnText, srcMoves, xpc, movesText, lastIndex, extractedMoves>>
    /\ UNCHANGED <<analyzerVars, apiVars, realVars, timerVars, pawnVars, pyVars>>

\* Line 671.
ExtractJoin ==
    /\ xpc = "lines"
    /\ lineIdx > Len(pgnText)
    /\ movesText' = Join(moveLines, <<" ">>)
    /\ xpc' = "match"
    /\ UNCHANGED <<pgnText, srcMoves, lineIdx, moveLines, lastIndex, extractedMoves>>
    /\ UNCHANGED <<analyzerVars, apiVars, realVars, timerVars, pawnVars, pyVars>>

\* Lines 675-676: one match of the global search, or its end.
ExtractMatch ==
    /\ xpc = "match"
    /\ LET m == NextMatch(movesText, lastIndex) IN
       IF m = Null
       THEN /\ xpc' = "filter"
            /\ UNCHANGED <<lastIndex, extractedMoves>>
       ELSE /\ extractedMoves' =
                  Append(extractedMoves, SubSeq(movesText, m[1].start, m[1].end - 1))
            /\ lastIndex' = m[1].end
            /\ UNCHANGED xpc
    /\ UNCHANGED <<pgnText, srcMoves, lineIdx, moveLines, movesText>>
    /\ UNCHANGED <<analyzerVars, apiVars, realVars, timerVars, pawnVars, pyVars>>

\* Lines 679-685.
ExtractFilter ==
    /\ xpc = "filter"
    /\ extractedMoves' = SelectSeq(extractedMoves, KeepCandidate)
    /\ xpc' = "done"
    /\ UNCHANGED <<pgnText, srcMoves, lineIdx, moveLines, movesText, lastIndex>>
    /\ UNCHANGED <<analyzerVars, apiVars, realVars, timerVars, pawnVars, pyVars>>

NextExtract ==
    \/ ExtractLine
    \/ ExtractJoin
    \/ ExtractMatch
    \/ ExtractFilter

SpecExtract == InitExtract /\ [][NextExtract]_vars

\* ============================================= RealStockfishEngine (local)
\* Lines 162-538: analyzePosition, the evaluation and the best-move search.
\* Evaluations are in centipawns.
\*
\* A position is what the rules library reports of it:
\*   turn        chess.turn()
\*   board       chess.board(), the pieces only, each with its file (0..7,
\*               the second index of board[rank][file]) and its rank (1..8)
\*   moves       chess.moves({ verbose: true }), in the library's order
\*   inCheck     chess.inCheck()
\*   castling    chess.getCastlingRights of both sides
\*   moveNumber  chess.moveNumber()

\* How many times analyzePosition is asked about the same position.
MaxCalls == 2

\* private analysisDepth
analysisDepth == 15

\* Values Math.random() can return, in thousandths.
Draws == {0, 500, 999}

RECURSIVE Sum(_)
Sum(s) == IF s = <<>> THEN 0 ELSE Head(s) + Sum(Tail(s))

\* pieceValues[type] of getMaterialBalance, values[piece] of getPieceValue.
pieceValues(type) ==
    CASE type = "p" -> 100 [] type = "n" -> 320 [] type = "b" -> 330
      [] type = "r" -> 500 [] type = "q" -> 900 [] type = "k" -> 0

\* The side to move counts positive for White, negative for Black.
Signed(c, v) == IF c.turn = "w" THEN v ELSE -v

getMaterialBalance(c) ==
    Sum([k \in 1..Len(c.board) |->
           IF c.board[k].color = "w" THEN pieceValues(c.board[k].type)
           ELSE -pieceValues(c.board[k].type)])

evaluatePieceActivity(c) ==
    LET bonus(move) == (IF "c" \in move.flags THEN 15 ELSE 0)
                       + (IF "+" \in move.flags THEN 20 ELSE 0)
                       + (IF move.piece = "n" \/ move.piece = "b" THEN 5 ELSE 0)
        activity == Len(c.moves) * 4 + Sum([k \in 1..Len(c.moves) |-> bonus(c.moves[k])])
    IN Signed(c, activity)

CastlingCount(rights) == (IF rights.k THEN 1 ELSE 0) + (IF rights.q THEN 1 ELSE 0)

evaluateKingSafety(c) ==
    (IF c.inCheck THEN (IF c.turn = "w" THEN -60 ELSE 60) ELSE 0)
    + CastlingCount(c.castling.w) * 25
    - CastlingCount(c.castling.b) * 25

\* The pawns of a colour on a file.
PawnCount(c, file, color) ==
    Cardinality({k \in 1..Len(c.board) :
                   /\ c.board[k].type = "p"
                   /\ c.board[k].color = color
                   /\ c.board[k].file = file})

isIsolatedPawn(c, file, color) ==
    \A checkFile \in {file - 1, file + 1} :
        (checkFile >= 0 /\ checkFile < 8) => PawnCount(c, checkFile, color) = 0

\* Lines 383-384 and 387-388.
DoubledPenalty == 25
IsolatedPenalty == 20

\* Lines 371-388: one file of the loop, what it adds to structure.
PawnFileTerm(c, file) ==
    LET whitePawns == PawnCount(c, file, "w")
        blackPawns == PawnCount(c, file, "b")
    IN (IF whitePawns > 1 THEN -((whitePawns - 1) * DoubledPenalty) ELSE 0)
       + (IF blackPawns > 1 THEN (blackPawns - 1) * DoubledPenalty ELSE 0)
       + (IF whitePawns = 1 /\ isIsolatedPawn(c, file, "w") THEN -IsolatedPenalty ELSE 0)
       + (IF blackPawns = 1 /\ isIsolatedPawn(c, file, "b") THEN IsolatedPenalty ELSE 0)

evaluatePawnStructure(c) == Sum([f \in 1..8 |-> PawnFileTerm(c, f - 1)])

\* e4, e5, d4, d5
centerSquares ==
    <<[file |-> 4, rank |-> 4], [file |-> 4, rank |-> 5],
      [file |-> 3, rank |-> 4], [file |-> 3, rank |-> 5]>>

evaluatePositionalFactors(c) ==
    LET onSquare(sq) == {k \in 1..Len(c.board) :
                           c.board[k].file = sq.file /\ c.board[k].rank = sq.rank}
        ofSquare(sq) == IF onSquare(sq) = {} THEN 0
                        ELSE IF c.board[CHOOSE k \in onSquare(sq) : TRUE].color = "w"
                             THEN 35 ELSE -35
        attackedSquares == {c.moves[k].to : k \in 1..Len(c.moves)}
    IN Sum([k \in 1..Len(centerSquares) |-> ofSquare(centerSquares[k])])
       + Signed(c, Cardinality(attackedSquares) * 2)

\* move.captured || 'p'
getPieceValue(captured) == pieceValues(IF captured = Null THEN "p" ELSE captured[1])

evaluateTacticalFactors(c) ==
    LET ofMove(move) ==
            (IF "c" \in move.flags THEN Signed(c, getPieceValue(move.captured)) ELSE 0)
            + (IF "+" \in move.flags THEN Signed(c, 50) ELSE 0)
    IN Sum([k \in 1..Len(c.moves) |-> ofMove(c.moves[k])])

\* Lines 415-427, rounded to whole centipawns: the sine term of the move
\* numbers the positions carry, and the random term for the draw r.
getGamePhaseEvaluation(moveNumber, r) ==
    IF moveNumber <= 8 THEN 13 + ((r - 500) * 30) \div 1000
    ELSE IF moveNumber <= 25 THEN 75 + ((r - 500) * 60) \div 1000
    ELSE -10 + ((r - 500) * 25) \div 1000

\* An evaluation that also adds the game-phase term.
calculateWithGamePhase(c) ==
    getMaterialBalance(c) + evaluatePieceActivity(c) + evaluateKingSafety(c)
    + evaluatePawnStructure(c) + evaluatePositionalFactors(c)
    + evaluateTacticalFactors(c) + getGamePhaseEvaluation(c.moveNumber, rnd)

\* Lines 199-221.
calculateStockfishStyleEvaluation(c) ==
    getMaterialBalance(c) + evaluatePieceActivity(c) + evaluateKingSafety(c)
    + evaluatePawnStructure(c) + evaluatePositionalFactors(c)
    + evaluateTacticalFactors(c)

\* A search that also gives up when one move is left.
NoLegalMovesOrForced(moves) == Len(moves) <= 1

\* Lines 226 and 431: moves.length === 0.
NoLegalMoves(moves) == Len(moves) = 0

\* A comparison that also replaces the best move on an equal score.
BetterOrEqual(score, best) == best = Null \/ score >= best[1]

\* Lines 238 and 442: moveEvaluation > bestEvaluation, Null being -Infinity.
Better(score, best) == best = Null \/ score > best[1]

describeMoveType(move) ==
    IF "c" \in move.flags THEN "Capture"
    ELSE IF "+" \in move.flags THEN "Check"
    ELSE IF "k" \in move.flags \/ "q" \in move.flags THEN "Castling"
    ELSE IF move.piece = "p" THEN "Pawn advance"
    ELSE "Development"

\* Lines 247-261: the first three moves, each with the negated evaluation
\* of the position after it.
getTopAlternativesWithEvaluation(r) ==
    [k \in 1..Min(Len(r.pos.moves), 3) |->
        [move |-> r.pos.moves[k].san,
         evaluation |-> -calculateStockfishStyleEvaluation(r.next[k]),
         description |-> describeMoveType(r.pos.moves[k])]]

\* Lines 514-524: after the move, the moves that start from its target.
createsFork(r, k) ==
    /\ r.pos.moves[k].piece = "n"
    /\ Cardinality({j \in 1..Len(r.next[k].moves) :
                      /\ r.next[k].moves[j].from = r.pos.moves[k].to
                      /\ "c" \in r.next[k].moves[j].flags}) >= 2

createsPinOrSkewer(move) == move.piece = "b" \/ move.piece = "r" \/ move.piece = "q"

RECURSIVE Unique(_)
\* The first occurrences, in order.
Unique(s) ==
    IF s = <<>> THEN <<>>
    ELSE LET rest == Unique(SubSeq(s, 1, Len(s) - 1))
             last == s[Len(s)]
         IN IF \E k \in 1..Len(rest) : rest[k] = last THEN rest ELSE Append(rest, last)

RECURSIVE TacticsFrom(_, _)
TacticsFrom(r, k) ==
    IF k > Len(r.pos.moves) THEN <<>>
    ELSE LET move == r.pos.moves[k]
         IN (IF "c" \in move.flags THEN <<"Capture">> ELSE <<>>)
            \o (IF "+" \in move.flags THEN <<"Check">> ELSE <<>>)
            \o (IF move.piece = "n" /\ createsFork(r, k) THEN <<"Fork">> ELSE <<>>)
            \o (IF createsPinOrSkewer(move) THEN <<"Pin">> ELSE <<>>)
            \o TacticsFrom(r, k + 1)

identifyRealTactics(r) == Unique(TacticsFrom(r, 1))

classifyGamePhase(c) ==
    IF c.moveNumber <= 10 THEN "Opening"
    ELSE IF c.moveNumber >= 30 THEN "Endgame"
    ELSE "Middlegame"

\* ---- the positions
NoCastling == [w |-> [k |-> FALSE, q |-> FALSE], b |-> [k |-> FALSE, q |-> FALSE]]

Piece(type, color, file, rank) ==
    [type |-> type, color |-> color, file |-> file, rank |-> rank]

KingStep(from, to) ==
    [san |-> "K" \o to, from |-> from, to |-> to, piece |-> "k",
     flags |-> {"n"}, captured |-> Null]

KingSteps(from, tos) == [k \in 1..Len(tos) |-> KingStep(from, tos[k])]

Position(turn, board, moves, inCheck, moveNumber) ==
    [turn |-> turn, board |-> board, moves |-> moves, inCheck |-> inCheck,
     castling |-> NoCastling, moveNumber |-> moveNumber]

\* Black to move, stalemated: Kb6, Qc7 against Ka8.
Stalemate ==
    [pos |-> Position("b", <<Piece("k", "b", 0, 8), Piece("q", "w", 2, 7),
                             Piece("k", "w", 1, 6)>>, <<>>, FALSE, 60),
     next |-> <<>>]

\* Black to move, mated: Kb6, Qb7 against Ka8.
Checkmate ==
    [pos |-> Position("b", <<Piece("k", "b", 0, 8), Piece("q", "w", 1, 7),
                             Piece("k", "w", 1, 6)>>, <<>>, TRUE, 60),
     next |-> <<>>]

\* White to move, Ka1 against Kc2 and a pawn on a2: Kxa2 is the only move.
OnlyMove ==
    [pos |-> Position("w", <<Piece("p", "b", 0, 2), Piece("k", "b", 2, 2),
                             Piece("k", "w", 0, 1)>>,
                      <<[san |-> "Kxa2", from |-> "a1", to |-> "a2", piece |-> "k",
                         flags |-> {"c"}, captured |-> Some("p")]>>, FALSE, 60),
     next |-> <<Position("b", <<Piece("k", "w", 0, 2), Piece("k", "b", 2, 2)>>,
                         KingSteps("c2", <<"c3", "d3", "d2", "d1", "c1">>), FALSE, 60)>>]

\* White to move, Ka1 against Kc3: Ka2 and Kb1 are worth the same.
TwoEqualMoves ==
    [pos |-> Position("w", <<Piece("k", "b", 2, 3), Piece("k", "w", 0, 1)>>,
                      KingSteps("a1", <<"a2", "b1">>), FALSE, 60),
     next |-> <<Position("b", <<Piece("k", "b", 2, 3), Piece("k", "w", 0, 2)>>,
                         KingSteps("c3", <<"b4", "c4", "d4", "d3", "d2", "c2">>),
                         FALSE, 60),
                Position("b", <<Piece("k", "b", 2, 3), Piece("k", "w", 1, 1)>>,
                         KingSteps("c3", <<"b4", "c4", "d4", "d3", "d2", "b3">>),
                         FALSE, 60)>>]

\* White to move, Ka1 against Kc4: Kb1, the last move, is the best one.
LastMoveBest ==
    [pos |-> Position("w", <<Piece("k", "b", 2, 4), Piece("k", "w", 0, 1)>>,
                      KingSteps("a1", <<"a2", "b2", "b1">>), FALSE, 60),
     next |-> <<Position("b", <<Piece("k", "b", 2, 4), Piece("k", "w", 0, 2)>>,
                         KingSteps("c4", <<"b5", "c5", "d5", "d4", "d3", "c3", "b4">>),
                         FALSE, 60),
                Position("b", <<Piece("k", "b", 2, 4), Piece("k", "w", 1, 2)>>,
                         KingSteps("c4", <<"b5", "c5", "d5", "d4", "d3", "b4">>),
                         FALSE, 60),
                Position("b", <<Piece("k", "b", 2, 4), Piece("k", "w", 1, 1)>>,
                         KingSteps("c4", <<"b5", "c5", "d5", "d4", "d3", "c3", "b3",
                                           "b4">>),
                         FALSE, 60)>>]

\* Black to move, Kh8 against Kf6 and a pawn on h7: Kg8 and Kxh7.
BlackToMove ==
    [pos |-> Position("b", <<Piece("k", "b", 7, 8), Piece("p", "w", 7, 7),
                             Piece("k", "w", 5, 6)>>,
                      <<KingStep("h8", "g8"),
                        [san |-> "Kxh7", from |-> "h8", to |-> "h7", piece |-> "k",
                         flags |-> {"c"}, captured |-> Some("p")]>>, FALSE, 60),
     next |-> <<Position("w", <<Piece("k", "b", 6, 8), Piece("p", "w", 7, 7),
                                Piece("k", "w", 5, 6)>>,
                         <<[san |-> "h8=Q+", from |-> "h7", to |-> "h8", piece |-> "p",
                            flags |-> {"n", "p"}, captured |-> Null],
                           [san |-> "h8=R+", from |-> "h7", to |-> "h8", piece |-> "p",
                            flags |-> {"n", "p"}, captured |-> Null],
                           [san |-> "h8=B", from |-> "h7", to |-> "h8", piece |-> "p",
                            flags |-> {"n", "p"}, captured |-> Null],
                           [san |-> "h8=N", from |-> "h7", to |-> "h8", piece |-> "p",
                            flags |-> {"n", "p"}, captured |-> Null]>>
                         \o KingSteps("f6", <<"e7", "g6", "g5", "f5", "e5", "e6">>),
                         FALSE, 61),
                Position("w", <<Piece("k", "b", 7, 7), Piece("k", "w", 5, 6)>>,
                         KingSteps("f6", <<"e7", "f7", "g5", "f5", "e5", "e6">>),
                         FALSE, 61)>>]

\* White to move, Kh1 and Na1 against Kf2: Nb3, Nc2 and Kh2.
KnightStep(from, to) ==
    [san |-> "N" \o to, from |-> from, to |-> to, piece |-> "n",
     flags |-> {"n"}, captured |-> Null]

KnightToMove ==
    [pos |-> Position("w", <<Piece("k", "b", 5, 2), Piece("n", "w", 0, 1),
                             Piece("k", "w", 7, 1)>>,
                      <<KnightStep("a1", "b3"), KnightStep("a1", "c2"),
                        KingStep("h1", "h2")>>, FALSE, 60),
     next |-> <<Position("b", <<Piece("n", "w", 1, 3), Piece("k", "b", 5, 2),
                                Piece("k", "w", 7, 1)>>,
                         KingSteps("f2", <<"e3", "f3", "g3", "f1", "e1", "e2">>),
                         FALSE, 60),
                Position("b", <<Piece("n", "w", 2, 2), Piece("k", "b", 5, 2),
                                Piece("k", "w", 7, 1)>>,
                         KingSteps("f2", <<"f3", "g3", "f1", "e2">>),
                         FALSE, 60),
                Position("b", <<Piece("k", "b", 5, 2), Piece("k", "w", 7, 2),
                                Piece("n", "w", 0, 1)>>,
                         KingSteps("f2", <<"e3", "f3", "f1", "e1", "e2">>),
                         FALSE, 60)>>]

Roots ==
    {Stalemate, Checkmate, OnlyMove, TwoEqualMoves, LastMoveBest, BlackToMove,
     KnightToMove}

\* An undo that leaves the move on the board.
UndoSkipped(r) == realChess

\* chess.undo() (lines 236, 253, 520): the position the move was made from.
Undo(r) == r.pos

\* ---- the steps
\* The locals of one analyzePosition call before its first statement.
CallStart(r) ==
    /\ realChess = r.pos
    /\ evaluation = 0
    /\ moveIdx = 1
    /\ moveEvaluation = 0
    /\ bestMove = Null
    /\ bestEvaluation = Null
    /\ searchResult = Null

InitReal ==
    /\ root \in Roots
    /\ rpc = "evaluate"
    /\ CallStart(root)
    /\ rnd \in Draws
    /\ analyses = <<>>
    /\ AnalyzerOff
    /\ ExtractOff
    /\ TimerOff
    /\ PawnOff
    /\ PyOff

\* Lines 168-169.
RealEvaluate ==
    /\ rpc = "evaluate"
    /\ evaluation' = calculateStockfishStyleEvaluation(realChess)
    /\ rpc' = "search"
    /\ UNCHANGED <<root, realChess, moveIdx, moveEvaluation, bestMove,
                   bestEvaluation, searchResult, rnd, analyses>>
    /\ UNCHANGED <<analyzerVars, apiVars, extractVars, timerVars, pawnVars, pyVars>>

\* Lines 225-229 (findBestMoveUsingEvaluation; findStrongestMove, lines
\* 430-434, has the same statements).
SearchBegin ==
    /\ rpc = "search"
    /\ IF NoLegalMoves(realChess.moves)
       THEN /\ searchResult' = Some("none")
            /\ rpc' = "alt"
            /\ UNCHANGED <<bestMove, bestEvaluation, moveIdx>>
       ELSE /\ bestMove' = Some(realChess.moves[1])
            /\ bestEvaluation' = Null
            /\ moveIdx' = 1
            /\ rpc' = "move"
            /\ UNCHANGED searchResult
    /\ UNCHANGED <<root, realChess, evaluation, moveEvaluation, rnd, analyses>>
    /\ UNCHANGED <<analyzerVars, apiVars, extractVars, timerVars, pawnVars, pyVars>>

\* Lines 233-235: chess.move(move) and the negated evaluation.
SearchMove ==
    /\ rpc = "move"
    /\ moveIdx <= Len(root.pos.moves)
    /\ realChess' = root.next[moveIdx]
    /\ moveEvaluation' = -calculateStockfishStyleEvaluation(root.next[moveIdx])
    /\ rpc' = "undo"
    /\ UNCHANGED <<root, evaluation, moveIdx, bestMove, bestEvaluation,
                   searchResult, rnd, analyses>>
    /\ UNCHANGED <<analyzerVars, apiVars, extractVars, timerVars, pawnVars, pyVars>>

\* Lines 236-241: chess.undo() and the comparison.
SearchUndo ==
    /\ rpc = "undo"
    /\ realChess' = Undo(root)
    /\ IF Better(moveEvaluation, bestEvaluation)
       THEN /\ bestEvaluation' = Some(moveEvaluation)
            /\ bestMove' = Some(root.pos.moves[moveIdx])
       ELSE UNCHANGED <<bestEvaluation, bestMove>>
    /\ moveIdx' = moveIdx + 1
    /\ rpc' = "move"
    /\ UNCHANGED <<root, evaluation, moveEvaluation, searchResult, rnd, analyses>>
    /\ UNCHANGED <<analyzerVars, apiVars, extractVars, timerVars, pawnVars, pyVars>>

\* Line 244.
SearchReturn ==
    /\ rpc = "move"
    /\ moveIdx > Len(root.pos.moves)
    /\ searchResult' = Some(bestMove[1].san)
    /\ rpc' = "alt"
    /\ moveIdx' = 1
    /\ UNCHANGED <<root, realChess, evaluation, moveEvaluation, bestMove,
                   bestEvaluation, rnd, analyses>>
    /\ UNCHANGED <<analyzerVars, apiVars, extractVars, timerVars, pawnVars, pyVars>>

\* Lines 248-252 (getTopAlternativesWithEvaluation): chess.move(move) for
\* one of the first three moves, and its evaluation.
AltMove ==
    /\ rpc = "alt"
    /\ moveIdx <= Min(Len(root.pos.moves), 3)
    /\ realChess' = root.next[moveIdx]
    /\ moveEvaluation' = -calculateStockfishStyleEvaluation(root.next[moveIdx])
    /\ rpc' = "altUndo"
    /\ UNCHANGED <<root, evaluation, moveIdx, bestMove, bestEvaluation,
                   searchResult, rnd, analyses>>
    /\ UNCHANGED <<analyzerVars, apiVars, extractVars, timerVars, pawnVars, pyVars>>

\* Lines 253-259: chess.undo(), the entry is built.
AltUndo ==
    /\ rpc = "altUndo"
    /\ realChess' = Undo(root)
    /\ moveIdx' = moveIdx + 1
    /\ rpc' = "alt"
    /\ UNCHANGED <<root, evaluation, moveEvaluation, bestMove, bestEvaluation,
                   searchResult, rnd, analyses>>
    /\ UNCHANGED <<analyzerVars, apiVars, extractVars, timerVars, pawnVars, pyVars>>

\* The listing returns; identifyRealTactics (line 183) starts its loop.
AltReturn ==
    /\ rpc = "alt"
    /\ moveIdx > Min(Len(root.pos.moves), 3)
    /\ moveIdx' = 1
    /\ rpc' = "tactic"
    /\ UNCHANGED <<root, realChess, evaluation, moveEvaluation, bestMove,
                   bestEvaluation, searchResult, rnd, analyses>>
    /\ UNCHANGED <<analyzerVars, apiVars, extractVars, timerVars, pawnVars, pyVars>>

\* Lines 471-476 for a move that is no knight's: createsFork is not called.
TacticStep ==
    /\ rpc = "tactic"
    /\ moveIdx <= Len(root.pos.moves)
    /\ root.pos.moves[moveIdx].piece # "n"
    /\ moveIdx' = moveIdx + 1
    /\ UNCHANGED <<root, rpc, realChess, evaluation, moveEvaluation, bestMove,
                   bestEvaluation, searchResult, rnd, analyses>>
    /\ UNCHANGED <<analyzerVars, apiVars, extractVars, timerVars, pawnVars, pyVars>>

\* Lines 518-519 (createsFork): chess.move(move) for a knight's move.
ForkMove ==
    /\ rpc = "tactic"
    /\ moveIdx <= Len(root.pos.moves)
    /\ root.pos.moves[moveIdx].piece = "n"
    /\ realChess' = root.next[moveIdx]
    /\ rpc' = "forkUndo"
    /\ UNCHANGED <<root, evaluation, moveIdx, moveEvaluation, bestMove,
                   bestEvaluation, searchResult, rnd, analyses>>
    /\ UNCHANGED <<analyzerVars, apiVars, extractVars, timerVars, pawnVars, pyVars>>

\* Lines 520-523: chess.undo(), createsFork returns.
ForkUndo ==
    /\ rpc = "forkUndo"
    /\ realChess' = Undo(root)
    /\ moveIdx' = moveIdx + 1
    /\ rpc' = "tactic"
    /\ UNCHANGED <<root, evaluation, moveEvaluation, bestMove, bestEvaluation,
                   searchResult, rnd, analyses>>
    /\ UNCHANGED <<analyzerVars, apiVars, extractVars, timerVars, pawnVars, pyVars>>

\* Lines 478-484: identifyRealTactics returns.
TacticsReturn ==
    /\ rpc = "tactic"
    /\ moveIdx > Len(root.pos.moves)
    /\ rpc' = "finish"
    /\ UNCHANGED <<root, realChess, evaluation, moveIdx, moveEvaluation, bestMove,
                   bestEvaluation, searchResult, rnd, analyses>>
    /\ UNCHANGED <<analyzerVars, apiVars, extractVars, timerVars, pawnVars, pyVars>>

\* Lines 173-185: the rest of analyzePosition.  Math.random() is called
\* for nodes and for time; the next call of analyzePosition, when there is
\* one, starts on a fresh Chess instance of the same position.
RealFinish ==
    /\ rpc = "finish"
    /\ \E second \in Draws, third \in Draws :
          /\ analyses' = Append(analyses,
                [evaluation |-> evaluation,
                 bestMove |-> searchResult[1],
                 principalVariation |-> <<searchResult[1]>>,
                 depth |-> analysisDepth,
                 nodes |-> 150000 + (rnd * 100000) \div 1000,
                 time |-> 1000 + (second * 800) \div 1000,
                 alternativeMoves |-> getTopAlternativesWithEvaluation(root),
                 tacticalThemes |-> identifyRealTactics(root),
                 positionType |-> classifyGamePhase(realChess)])
          /\ rnd' = third
    /\ IF Len(analyses) + 1 < MaxCalls
       THEN /\ rpc' = "evaluate"
            /\ realChess' = root.pos
            /\ evaluation' = 0
            /\ moveIdx' = 1
            /\ moveEvaluation' = 0
            /\ bestMove' = Null
            /\ bestEvaluation' = Null
            /\ searchResult' = Null
       ELSE /\ rpc' = "done"
            /\ UNCHANGED <<realChess, evaluation, moveIdx, moveEvaluation, bestMove,
                           bestEvaluation, searchResult>>
    /\ UNCHANGED root
    /\ UNCHANGED <<analyzerVars, apiVars, extractVars, timerVars, pawnVars, pyVars>>

NextReal ==
    \/ RealEvaluate
    \/ SearchBegin
    \/ SearchMove
    \/ SearchUndo
    \/ SearchReturn
    \/ AltMove
    \/ AltUndo
    \/ AltReturn
    \/ TacticStep
    \/ ForkMove
    \/ ForkUndo
    \/ TacticsReturn
    \/ RealFinish

SpecReal == InitReal /\ [][NextReal]_vars

\* ------------------------------------------- evaluatePawnStructure, one call
\* The boards: the two kings on h1 and h8 and, for each colour, up to
\* MaxPawnsOnFile pawns on each of the files 0..MaxPawnFile, White's from
\* the second rank up, Black's from the seventh rank down.
MaxPawnFile == 2
MaxPawnsOnFile == 2

PawnLayouts == [0..MaxPawnFile -> 0..MaxPawnsOnFile]

RECURSIVE PawnsOn(_, _, _)
PawnsOn(layout, color, file) ==
    IF file > MaxPawnFile THEN <<>>
    ELSE [j \in 1..layout[file] |->
             Piece("p", color, file, IF color = "w" THEN 1 + j ELSE 8 - j)]
         \o PawnsOn(layout, color, file + 1)

PawnBoards ==
    {[board |-> <<Piece("k", "w", 7, 1), Piece("k", "b", 7, 8)>>
                \o PawnsOn(w, "w", 0) \o PawnsOn(b, "b", 0)] :
        w, b \in {l \in PawnLayouts : Len(PawnsOn(l, "w", 0)) <= 8}}

InitPawns ==
    /\ pawnChess \in PawnBoards
    /\ pawnFile = 0
    /\ structure = 0
    /\ pawnPc = "loop"
    /\ AnalyzerOff
    /\ ExtractOff
    /\ RealOff
    /\ TimerOff
    /\ PyOff

\* Lines 370-389: one iteration of the loop over the files.
PawnFileStep ==
    /\ pawnPc = "loop"
    /\ pawnFile < 8
    /\ structure' = structure + PawnFileTerm(pawnChess, pawnFile)
    /\ pawnFile' = pawnFile + 1
    /\ UNCHANGED <<pawnChess, pawnPc>>
    /\ UNCHANGED <<analyzerVars, apiVars, extractVars, realVars, timerVars, pyVars>>

\* Line 391.
PawnReturn ==
    /\ pawnPc = "loop"
    /\ pawnFile = 8
    /\ pawnPc' = "done"
    /\ UNCHANGED <<pawnChess, pawnFile, structure>>
    /\ UNCHANGED <<analyzerVars, apiVars, extractVars, realVars, timerVars, pyVars>>

NextPawns == PawnFileStep \/ PawnReturn

SpecPawns == InitPawns /\ [][NextPawns]_vars

\* ------------------------------------------------- analyze_game (the script)
\* A score as python-chess reports it: centipawns, or a mate distance whose
\* sign tells which side mates.
Cp(v) == [mate |-> Null, cp |-> Some(v)]
Mate(n) == [mate |-> Some(n), cp |-> Null]

\* What the engine thinks of a position, from White's point of view.
Scores == {Cp(v) : v \in {-300, 0, 300}} \cup {Mate(2), Mate(-2)}

MaxPlies == 2

\* A game of n moves read from the file: the engine's score of each of its
\* n + 1 positions, and for each move whether it is the engine's first
\* choice (played_move == best_move).  White moves first.
Games ==
    UNION {{[scores |-> sc, playedBest |-> pb] :
               sc \in [1..(n + 1) -> Scores], pb \in [1..n -> BOOLEAN]} :
           n \in 0..MaxPlies}

Negated(score) ==
    IF score.mate # Null THEN Mate(-score.mate[1]) ELSE Cp(-score.cp[1])

\* info["score"].relative on the position reached after ply moves: the
\* score from the point of view of the side to move.
Relative(score, ply) == IF ply % 2 = 0 THEN score ELSE Negated(score)

\* Lines 26 and 48 (100.0) and line 57 (2.0), in hundredths of a pawn.
PyMateScore == 10000
PyDropThreshold == 200

\* Lines 26-29 and 47-50.
ScoreOf(raw) ==
    IF raw.mate # Null
    THEN (IF raw.mate[1] > 0 THEN PyMateScore ELSE -PyMateScore)
    ELSE raw.cp[1]

InitPy ==
    /\ game \in Games
    /\ node = 0
    /\ big_drops = <<>>
    /\ deltas = <<>>
    /\ pyPc = "loop"
    /\ AnalyzerOff
    /\ ExtractOff
    /\ RealOff
    /\ TimerOff
    /\ PawnOff

\* Lines 17-60: one iteration of the loop over the game's moves.  played
\* stands for san_played: the move of the game the entry is about.
AnalyseMove ==
    /\ pyPc = "loop"
    /\ node < Len(game.playedBest)
    /\ LET score_before == ScoreOf(Relative(game.scores[node + 1], node))
           score_after == ScoreOf(Relative(game.scores[node + 2], node + 1))
           move_number == 1 + (node + 1) \div 2
           delta == Abs(score_before - score_after)
       IN /\ deltas' = Append(deltas, delta)
          /\ big_drops' =
                IF delta >= PyDropThreshold /\ ~game.playedBest[node + 1]
                THEN Append(big_drops, [move_number |-> move_number,
                                        played |-> node + 1,
                                        score_before |-> score_before,
                                        score_after |-> score_after])
                ELSE big_drops
    /\ node' = node + 1
    /\ UNCHANGED <<game, pyPc>>
    /\ UNCHANGED <<analyzerVars, apiVars, extractVars, realVars, timerVars, pawnVars>>

\* Lines 62-68: the loop is over, the summary is printed.
PySummary ==
    /\ pyPc = "loop"
    /\ node = Len(game.playedBest)
    /\ pyPc' = "done"
    /\ UNCHANGED <<game, node, big_drops, deltas>>
    /\ UNCHANGED <<analyzerVars, apiVars, extractVars, realVars, timerVars, pawnVars>>

NextPy == AnalyseMove \/ PySummary

SpecPy == InitPy /\ [][NextPy]_vars

\* -------------------------------------------------------------- properties
Reported == pc = "done" /\ outcome = "report"

Pairs == 2..Len(moveEvaluations)

\* Records k - 1 and k belong to consecutive plies: record k - 1 then holds
\* the evaluation and the suggestion for the position move k was played in.
Consecutive(k) == recPly[k] = recPly[k - 1] + 1

\* The move of record k is the move suggested for the position before it.
PlayedSuggested(k) ==
    SanOf(moveEvaluations[k - 1].bestMove) = moveEvaluations[k].move[1]

\* A score as the delta is meant to take it: a mate score is the sentinel,
\* signed by the side it favours, anything else is the centipawn value.
Normalized(rec) ==
    IF rec.mate # Null
    THEN (IF rec.mate[1] > 0 THEN MateSentinel ELSE -MateSentinel)
    ELSE Num(rec.evaluationFloat)

\* delta = |score-before - score-after| of the move of record k.
Delta(k) == Abs(Normalized(moveEvaluations[k - 1]) - Normalized(moveEvaluations[k]))

\* The blunder rule applied to the move of record k.
RuleIsBlunder(k) ==
    /\ k \in Pairs
    /\ Consecutive(k)
    /\ Delta(k) > DropThreshold
    /\ ~PlayedSuggested(k)

VerdictText == rawOutputLines[Len(rawOutputLines)].move

\* C1: a move that is the suggested best move is never a blunder and does
\* not by itself make hasBlunders true: whenever the report has hasBlunders
\* set, some evaluation drop belongs to a move that differs from the move
\* suggested for its position.
C1_SuggestedMoveIsNoBlunder ==
    (Reported /\ hasBlunders) =>
        \E k \in Pairs :
            IsDrop(moveEvaluations, k) /\ ~(Consecutive(k) /\ PlayedSuggested(k))

\* C2: a move that differs from the suggested best move is classified as a
\* blunder exactly when delta = |score-before - score-after| is strictly
\* greater than the threshold.
C2_BlunderIffDeltaExceeds ==
    Reported =>
        \A k \in Pairs :
            (Consecutive(k) /\ ~PlayedSuggested(k)) =>
                (IsDrop(moveEvaluations, k) <=> Delta(k) > DropThreshold)

\* C3: when the run completes, hasBlunders is true if and only if at least
\* one record of the report is a blunder.
C3_HasBlundersIffSomeBlunder ==
    Reported => (hasBlunders <=> \E k \in Pairs : RuleIsBlunder(k))

\* C4: a run that ends with zero evaluated moves does not state the
\* clean-game verdict "No major evaluation drops detected".
C4_NoCleanVerdictOnZeroMoves ==
    (Reported /\ moveEvaluations = <<>>) => VerdictText # NoDropsText

\* C5: a mate score enters the delta comparison as the sentinel of 10000
\* centipawns, signed by the favoured side, never as a raw mate distance or
\* an absent or zero centipawn value.
C5_MateEntersDeltaAsSentinel ==
    Reported =>
        \A k \in Pairs :
            \A rec \in {moveEvaluations[k - 1], moveEvaluations[k]} :
                rec.mate # Null =>
                    DeltaOperand(rec) = (IF rec.mate[1] > 0 THEN MateSentinel ELSE -MateSentinel)

\* C6: every score of an evaluation result or a move record is exactly one
\* of a centipawn value or a mate distance: none carries both.
C6_ScoreIsCentipawnXorMate ==
    /\ \A k \in 1..Len(moveEvaluations) :
          ~(moveEvaluations[k].mate # Null /\ moveEvaluations[k].evaluation \in Int)
    /\ apiResult.ok =>
          ~(apiResult.data[1].mate # Null /\ apiResult.data[1].evaluation # Null)

\* C7: one logical call analyzePosition(fen) issues at most 3 requests,
\* whatever the attempts' outcomes: once the third attempt has failed, the
\* earlier frames pass the failure on and start no further attempt.
C7_AtMostThreeRequests ==
    /\ requests <= 3
    /\ (apiPc = "rejected" /\ Len(frames) < 3) => requests = 3
    /\ apiPc = "failed" => requests = 3

C7_Witness == apiPc = "failed" /\ requests = 3 /\ frames = <<>>

\* C8: two retryable failures followed by a success return the third
\* attempt's result after exactly two sleeps, of 600 ms then 800 ms, and no
\* sleep follows the successful attempt.
C8_TwoSleepsThenSuccess ==
    (apiPc = "returned" /\ requests = 3) =>
        /\ sleeps = <<600, 800>>
        /\ lastAttempt = "ok"
        /\ apiResult.ok /\ apiResult.data[1] \in Responses

C8_Witness == apiPc = "returned" /\ requests = 3 /\ Len(sleeps) = 2

\* C9: when all three attempts fail, the error the call surfaces is the
\* error of the third attempt, which tells the caller the failure kind.
C9_SurfacesLastError ==
    apiPc = "failed" => apiResult.message = ErrorMessage(lastAttempt)

AllEvaluated == failedPlies = {} /\ Len(evaluatedFens) = Len(moveEvaluations)

\* The records already appended are the same in the next state.
RecordsKept ==
    /\ Len(moveEvaluations') >= Len(moveEvaluations)
    /\ \A k \in 1..Len(moveEvaluations) : moveEvaluations'[k] = moveEvaluations[k]

C12_FallbackKeepsValidatedPrefix ==
    (pc # "start" /\ ~pgn.structured) =>
        /\ Len(gameMoves) <= Len(pgn.tokens)
        /\ gameMoves = SubSeq(pgn.tokens, 1, Len(gameMoves))
        /\ \A k \in 1..Len(gameMoves) : Legal(SubSeq(gameMoves, 1, k - 1), gameMoves[k])
        /\ Len(gameMoves) < Len(pgn.tokens) =>
              ~Legal(gameMoves, pgn.tokens[Len(gameMoves) + 1])

C12_Witness ==
    /\ pc # "start" /\ ~pgn.structured
    /\ Len(pgn.tokens) = 3 /\ Len(gameMoves) = 1
    /\ Legal(gameMoves, pgn.tokens[3])

\* C13: when structured parsing fails the fallback runs and the analysis
\* still returns a report, whatever the text: the fallback never makes the
\* run fail, also when it recovers no move or its first candidate is
\* rejected.
C13_FallbackNeverFailsRun ==
    ~pgn.structured =>
        /\ outcome # "threw"
        /\ pc = "done" => outcome = "report"

C13_Witness ==
    /\ Reported /\ ~pgn.structured
    /\ pgn.tokens # <<>> /\ gameMoves = <<>>

\* The moves stored in the records, in record order, without the padding
\* and the "|" that line 744 adds.
RecordedMoves == [k \in 1..Len(moveEvaluations) |-> moveEvaluations[k].move[1]]

\* The positions reached by replaying ms from board, up to the first move
\* the board rejects.
RECURSIVE Replay(_, _)
Replay(board, ms) ==
    IF ms = <<>> THEN <<>>
    ELSE IF Legal(board, Head(ms))
         THEN <<Append(board, Head(ms))>> \o Replay(Append(board, Head(ms)), Tail(ms))
         ELSE <<>>

C19_SpacingBetweenMoves ==
    pc = "eval" => (IF i > 0 THEN sinceEval >= 500 ELSE sinceEval = 0)

C19_Witness ==
    /\ pc = "eval" /\ apiPc = "fetch" /\ requests = 0
    /\ i = 2 /\ failedPlies = {2} /\ Len(moveEvaluations) = 1

C18_OnlyFirstThirtyPlies ==
    LET n == Len(pgn.tokens)
        m == IF n < 30 THEN n ELSE 30
    IN /\ Len(moveEvaluations) <= m
       /\ Len(evaluatedFens) <= m
       /\ Len(chess) <= m
       /\ Reported =>
             /\ totalMoves = n
             /\ Len(evaluatedFens) = m
             /\ chess = SubSeq(pgn.tokens, 1, m)

C18_Witness ==
    /\ Reported
    /\ Len(pgn.tokens) > 30
    /\ Len(evaluatedFens) = 30
    /\ totalMoves = Len(pgn.tokens)

\* C14: fallback extraction over a text of bracketed header lines, numbered
\* moves and a trailing result token returns exactly the text's move tokens,
\* in text order: no header content, no move number, no result token.
C14_ExtractionReturnsMoveTokens ==
    xpc = "done" => extractedMoves = srcMoves

\* C15: the best-move search returns a move of LegalMoves(P) when there is
\* one, and the "none" sentinel exactly when there is none.
C15_SearchReturnsLegalMoveOrNone ==
    (rpc # "off" /\ searchResult # Null) =>
        LET legal == {root.pos.moves[k].san : k \in 1..Len(root.pos.moves)}
        IN /\ legal # {} => searchResult[1] \in legal
           /\ searchResult[1] = "none" <=> legal = {}

\* The search has returned the last of three legal moves.
C15_Witness ==
    /\ rpc = "finish"
    /\ Len(root.pos.moves) = 3
    /\ searchResult = Some(root.pos.moves[3].san)

\* C16: two analyses of the same position return the same score and the
\* same best move, whatever Math.random() returned in between.
C16_RepeatedAnalysisAgrees ==
    \A a \in 1..Len(analyses), b \in 1..Len(analyses) :
        /\ analyses[a].evaluation = analyses[b].evaluation
        /\ analyses[a].bestMove = analyses[b].bestMove

\* Two analyses of a position with legal moves, drawn different random
\* numbers.
C16_Witness ==
    /\ Len(analyses) >= 2
    /\ analyses[1].nodes # analyses[2].nodes
    /\ analyses[1].time # analyses[2].time
    /\ analyses[1].bestMove # "none"

\* C21: when the timer of an attempt fires before the fetch has resolved,
\* the request is cancelled and the attempt is a retryable failure: after
\* the first and the second attempt a sleep and a new attempt with a fresh
\* timer follow, after the third the call fails.
C21_TimeoutIsRetryable ==
    /\ [](/\ (apiPc = "fetch" /\ phase = "headers") =>
                (timerArmed /\ attemptClock <= AbortAfter)
          /\ (lastAttempt = "timeout" /\ apiPc = "sleep") => Top.retryCount < maxRetries
          /\ (lastAttempt = "timeout" /\ apiPc \in {"rejected", "failed"}) => requests = 3)
    /\ [][/\ (phase = "headers" /\ lastAttempt' = "timeout" /\ requests' = requests + 1) =>
                /\ attemptClock = AbortAfter
                /\ phase' = "start"
                /\ apiPc' = IF Top.retryCount < maxRetries THEN "sleep" ELSE "rejected"
          /\ (apiPc = "sleep" /\ apiPc' # "sleep") =>
                (apiPc' = "fetch" /\ phase' = "start" /\ Len(frames') = Len(frames) + 1)
          /\ (phase = "start" /\ phase' = "headers") =>
                (timerArmed' /\ attemptClock' = 0)]_vars

\* The third attempt has timed out as the two before it, and the call has
\* failed.
C21_Witness ==
    /\ lastAttempt = "timeout"
    /\ apiPc = "failed"
    /\ requests = 3
    /\ sleeps = <<600, 800>>

\* C22: an attempt that has not delivered its parsed response 15 s after
\* its start is cancelled: no attempt lasts longer than 15 s.
C22_AttemptEndsWithinTimeout ==
    attemptClock <= AbortAfter

\* The negated evaluation of the position after the k-th legal move.
NegatedAfter(k) == -calculateStockfishStyleEvaluation(root.next[k])

\* The legal move the search returned, as an index of the move list.
Chosen == CHOOSE k \in 1..Len(root.pos.moves) : root.pos.moves[k].san = searchResult[1]

SearchChose == rpc # "off" /\ searchResult # Null /\ root.pos.moves # <<>>

\* C23: the search returns a move whose negated resulting evaluation is
\* maximal over the legal moves, the first such move in the order of the
\* rules capability.
C23_FirstMaximalNegatedScore ==
    SearchChose =>
        /\ \A j \in 1..Len(root.pos.moves) : NegatedAfter(j) <= NegatedAfter(Chosen)
        /\ \A j \in 1..(Chosen - 1) : NegatedAfter(j) < NegatedAfter(Chosen)

\* Two legal moves are worth the same and the search has returned the
\* first.
C23_Witness ==
    /\ SearchChose
    /\ Len(root.pos.moves) = 2
    /\ NegatedAfter(1) = NegatedAfter(2)
    /\ Chosen = 1

\* C24: score-before and score-after of a move are in one sign convention:
\* a move after which the engine's view of the position is the same as
\* before it has delta 0 and is never put on the list of drops.
C24_UnchangedPositionIsNeverFlagged ==
    \A k \in 1..Len(deltas) :
        game.scores[k] = game.scores[k + 1] =>
            /\ deltas[k] = 0
            /\ \A d \in 1..Len(big_drops) : big_drops[d].played # k

\* The pawn-structure term as the sum, over files and colours, of one
\* doubled-pawn penalty per pawn beyond the first and one isolated-pawn
\* penalty for a file with pawns between files without.
PenaltiesOf(c, file, color) ==
    LET n == PawnCount(c, file, color)
    IN (IF n > 1 THEN (n - 1) * DoubledPenalty ELSE 0)
       + (IF n >= 1 /\ isIsolatedPawn(c, file, color) THEN IsolatedPenalty ELSE 0)

\* C25: the pawn-structure term charges each colour one doubled-pawn
\* penalty for each pawn beyond the first on a file and the isolated-pawn
\* penalty for every file that holds at least one of its pawns while
\* neither adjacent file holds one, files with two or more pawns included.
C25_DoubledAndIsolatedPenalties ==
    pawnPc = "done" =>
        structure = Sum([f \in 1..8 |-> PenaltiesOf(pawnChess, f - 1, "b")
                                        - PenaltiesOf(pawnChess, f - 1, "w")])

\* C26: the move the search returns is the best one for the side to move
\* under the White-positive evaluation: the highest resulting evaluation
\* with White to move, the lowest with Black to move.
C26_BestForSideToMove ==
    SearchChose =>
        LET after(k) == calculateStockfishStyleEvaluation(root.next[k])
        IN \A j \in 1..Len(root.pos.moves) :
              IF root.pos.turn = "w" THEN after(j) <= after(Chosen)
              ELSE after(j) >= after(Chosen)

\* C30: the best-move search, the alternative listing and createsFork leave
\* the position as it was on entry: a move applied for evaluation is on the
\* board only until it is undone, before the next move is tried and before
\* the operation returns.
C30_PositionRestored ==
    /\ rpc \in {"undo", "altUndo", "forkUndo"} => realChess = root.next[moveIdx]
    /\ rpc \in {"evaluate", "search", "move", "alt", "tactic", "finish", "done"} =>
          realChess = root.pos

\* The three loops have run over the three moves of a position with a
\* knight.
C30_Witness ==
    /\ rpc = "finish"
    /\ root = KnightToMove
    /\ searchResult # Null
    /\ realChess = root.pos

\* The pair of records k - 1, k is reached by the blunder check: no earlier
\* pair has ended the loop.
Compared(k) == \A j \in 2..(k - 1) : ~IsDrop(moveEvaluations, j)

\* C27: every evaluation difference that can set hasBlunders is taken
\* between the evaluations of two positions exactly one ply apart, also in
\* a run where a move's evaluation failed and left no record.
C27_ComparedRecordsAreOnePlyApart ==
    Reported => \A k \in Pairs : Compared(k) => Consecutive(k)

\* C28: every move the analysis loop takes from the move list is accepted
\* by chess.move on the board the loop has reached, so the run never fails
\* because of a move.
C28_LoopMovesAreAccepted ==
    /\ (pc = "loop" /\ i < maxMoves) => Legal(chess, gameMoves[i + 1])
    /\ outcome # "threw"

\* The plies of the "Move n:" lines of the transcript, in order.
TranscriptPlies ==
    LET IsMoveLine(l) == l.kind = "move"
        printed == SelectSeq(rawOutputLines, IsMoveLine)
    IN [k \in 1..Len(printed) |-> printed[k].moveNum]

\* C29: after any run the move records and the "Move n:" lines of the
\* transcript correspond one to one, also when a response reports success
\* but lacks the evaluation.
C29_RecordsMatchTranscript ==
    pc = "done" => TranscriptPlies = recPly

====
